---- MODULE Spec2Model ----
\* A model of the grunt "bundlecache" multi task (tasks/bundle-cache.js):
\* the task body that normalises its options and walks its targets, and the
\* helper bundlecache(destination, files, options) that embeds the source
\* files of one target before the </body> marker of the destination file.
\* Strings are sequences of one-character strings, indexed from 1; the
\* JavaScript string functions the code calls are modelled on 0-based
\* indices as the code uses them.
EXTENDS Integers, Sequences, FiniteSets, TLC

\* ------------------------------------------------------------------------
\* Bounds of the model.
\* ------------------------------------------------------------------------

\* The greatest number of targets (this.files entries) of one run.
MaxTargets == 3

\* The greatest number of source files the environment deletes during a run.
MaxEnvDeletes == 1

\* ------------------------------------------------------------------------
\* Literals of the code.
\* ------------------------------------------------------------------------

\* '</body>', the argument of html.indexOf.
Marker == <<"<", "/", "b", "o", "d", "y", ">">>

\* '<script type="text/ng-template" id="'
TagOpen == <<"<", "s", "c", "r", "i", "p", "t", " ", "t", "y", "p", "e", "=", "\"", "t", "e", "x", "t", "/", "n", "g", "-", "t", "e", "m", "p", "l", "a", "t", "e", "\"", " ", "i", "d", "=", "\"">>

\* '">\n'
TagMid == <<"\"", ">", "\n">>

\* '\n</script>'
TagClose == <<"\n", "<", "/", "s", "c", "r", "i", "p", "t", ">">>

\* '\n', the separator of tags.join.
Newline == <<"\n">>

\* ------------------------------------------------------------------------
\* The JavaScript string functions the code calls.
\* ------------------------------------------------------------------------

\* needle occurs in s at 0-based index k.
OccursAt(s, needle, k) ==
    /\ k >= 0
    /\ k + Len(needle) <= Len(s)
    /\ \A j \in 1..Len(needle) : s[k + j] = needle[j]

\* A plausible slip: String.prototype.lastIndexOf in place of indexOf.
LastIndexOf(s, needle) ==
    LET hits == {k \in 0..Len(s) : OccursAt(s, needle, k)}
    IN  IF hits = {} THEN -1 ELSE CHOOSE k \in hits : \A h \in hits : h <= k

\* String.prototype.indexOf: the least 0-based index of needle, -1 if none.
IndexOf(s, needle) ==
    LET hits == {k \in 0..Len(s) : OccursAt(s, needle, k)}
    IN  IF hits = {} THEN -1 ELSE CHOOSE k \in hits : \A h \in hits : k <= h

\* The index normalisation of String.prototype.slice: a negative index
\* counts from the end, and the result is clamped to 0..Len(s).
SliceIndex(s, k) ==
    IF k < 0 THEN (IF Len(s) + k < 0 THEN 0 ELSE Len(s) + k)
    ELSE (IF k > Len(s) THEN Len(s) ELSE k)

\* String.prototype.slice(from, to).
Slice(s, from, to) ==
    SubSeq(s, SliceIndex(s, from) + 1, SliceIndex(s, to))

\* String.prototype.slice(from), to the end of the string.
SliceFrom(s, from) ==
    SubSeq(s, SliceIndex(s, from) + 1, Len(s))

\* Array.prototype.join(sep) of an array of strings.
RECURSIVE Join(_, _)
Join(arr, sep) ==
    IF Len(arr) = 0 THEN <<>>
    ELSE IF Len(arr) = 1 THEN arr[1]
    ELSE arr[1] \o sep \o Join(Tail(arr), sep)

\* The elements of a sequence.
Range(s) == {s[j] : j \in 1..Len(s)}

\* ------------------------------------------------------------------------
\* new RegExp('^' + base) and relPath.replace(re, ''), for patterns made of
\* literal characters, the wildcard '.', a leading anchor '^' and top-level
\* alternation '|'.
\* ------------------------------------------------------------------------

\* The alternatives of a pattern: its pieces between top-level '|'.
RECURSIVE Alternatives(_)
Alternatives(re) ==
    LET bars == {k \in 1..Len(re) : re[k] = "|"}
    IN  IF bars = {} THEN <<re>>
        ELSE LET k == CHOOSE b \in bars : \A c \in bars : b <= c
             IN  <<SubSeq(re, 1, k - 1)>> \o Alternatives(SubSeq(re, k + 1, Len(re)))

\* One pattern atom against one character: '.' is any character but a
\* line terminator, anything else is itself.
AtomMatches(a, c) == IF a = "." THEN c # "\n" ELSE a = c

\* Is the alternative anchored by a leading '^'?
Anchored(alt) == Len(alt) > 0 /\ alt[1] = "^"

\* The atoms of an alternative, its anchor removed.
Atoms(alt) == IF Anchored(alt) THEN Tail(alt) ELSE alt

\* Does the alternative match s at 0-based position pos?
AltMatchesAt(alt, s, pos) ==
    /\ Anchored(alt) => pos = 0
    /\ pos + Len(Atoms(alt)) <= Len(s)
    /\ \A j \in 1..Len(Atoms(alt)) : AtomMatches(Atoms(alt)[j], s[pos + j])

\* RegExp.prototype.exec: the leftmost position where an alternative
\* matches, and there the first alternative that does; index -1 if none.
RegExpExec(re, s) ==
    LET alts == Alternatives(re)
        hits == {p \in 0..Len(s) : \E a \in 1..Len(alts) : AltMatchesAt(alts[a], s, p)}
    IN  IF hits = {} THEN [index |-> -1, length |-> 0]
        ELSE LET p == CHOOSE h \in hits : \A g \in hits : h <= g
                 matching == {a \in 1..Len(alts) : AltMatchesAt(alts[a], s, p)}
                 a  == CHOOSE b \in matching : \A c \in matching : b <= c
             IN  [index |-> p, length |-> Len(Atoms(alts[a]))]

\* s.replace(re, ''): the first match of re removed from s.
Replace(s, re) ==
    LET m == RegExpExec(re, s)
    IN  IF m.index = -1 THEN s
        ELSE SubSeq(s, 1, m.index) \o SubSeq(s, m.index + m.length + 1, Len(s))

\* baseRe.forEach(function(re) { relPath = relPath.replace(re, ''); })
RECURSIVE StripBase(_, _)
StripBase(res, relPath) ==
    IF Len(res) = 0 THEN relPath
    ELSE StripBase(Tail(res), Replace(relPath, Head(res)))

\* options.base.map(function(base) { return new RegExp('^' + base); })
BaseRe(base) == [j \in 1..Len(base) |-> <<"^">> \o base[j]]

\* ------------------------------------------------------------------------
\* path.extname and path.resolve.
\* ------------------------------------------------------------------------

\* The last component of a path: what follows its last '/'.
Basename(p) ==
    LET slashes == {k \in 1..Len(p) : p[k] = "/"}
    IN  IF slashes = {} THEN p
        ELSE SubSeq(p, (CHOOSE k \in slashes : \A h \in slashes : h <= k) + 1, Len(p))

\* path.extname: from the last '.' of the last component to its end; empty
\* when there is no '.', when the only '.' starts the component, or for '..'.
ExtName(p) ==
    LET b    == Basename(p)
        dots == {k \in 1..Len(b) : b[k] = "."}
        last == CHOOSE k \in dots : \A h \in dots : h <= k
    IN  IF dots = {} \/ b = <<".", ".">> THEN <<>>
        ELSE IF last = 1 THEN <<>>
        ELSE SubSeq(b, last, Len(b))

\* The working directory of the process.
Cwd == <<"/", "w">>

\* path.resolve of one argument: an absolute path is kept, a relative one
\* is appended to the working directory.
Resolve(p) ==
    IF Len(p) > 0 /\ p[1] = "/" THEN p ELSE Cwd \o <<"/">> \o p

\* ------------------------------------------------------------------------
\* The files of the project directory and the configurations of the task.
\* ------------------------------------------------------------------------

\* Paths as the configuration and grunt.file.expand give them, relative to
\* the working directory.
IndexHtml   == <<"o", ".", "h", "t", "m", "l">>
DemoHtml    == <<"p", ".", "h", "t", "m", "l">>
MissingHtml == <<"m", ".", "h", "t", "m", "l">>
LinkHtml    == <<"l", "n", "k">>
AppDir      == <<"a", "p", "p">>
WidgetHtml  == <<"a", "p", "p", "/", "a", ".", "h", "t", "m", "l">>
WidgetJs    == <<"a", "p", "p", "/", "b", ".", "j", "s">>

\* Every path of the model.
Paths == {IndexHtml, DemoHtml, MissingHtml, LinkHtml, AppDir, WidgetHtml, WidgetJs}

\* The source files: the paths the environment may delete under the task.
SourcePaths == {WidgetHtml, WidgetJs}

\* A path that names nothing.
NoFile == [kind |-> "none", content |-> <<>>]

\* The texts index.html may hold before the run: one with two markers and
\* one with none.
DestTexts ==
    { <<"A", "<", "/", "b", "o", "d", "y", ">", "<", "/", "b", "o", "d", "y", ">">>,
      <<"<", "p", ">", "n", "o">> }

\* The project directory before the run, index.html holding text.
InitialFs(text) ==
    [p \in {Resolve(q) : q \in Paths} |->
        IF p = Resolve(IndexHtml) THEN [kind |-> "file", content |-> text]
        ELSE IF p = Resolve(DemoHtml) THEN [kind |-> "file", content |-> <<"P", "<", "/", "b", "o", "d", "y", ">">>]
        ELSE IF p = Resolve(LinkHtml) THEN [kind |-> "link", content |-> <<"L", "<", "/", "b", "o", "d", "y", ">">>]
        ELSE IF p = Resolve(AppDir) THEN [kind |-> "dir", content |-> <<>>]
        ELSE IF p = Resolve(WidgetHtml) THEN [kind |-> "file", content |-> <<"h", "i">>]
        ELSE IF p = Resolve(WidgetJs) THEN [kind |-> "file", content |-> <<"1">>]
        ELSE NoFile]

\* The paths a source pattern can match, in the order grunt.file.expand
\* returns them.
Candidates(pattern) ==
    IF pattern = "app/*" THEN <<WidgetHtml, WidgetJs>>
    ELSE IF pattern = "p*" THEN <<DemoHtml>>
    ELSE <<>>

\* The targets a configuration may list: f.dest and f.src, the latter an
\* array of patterns or a single pattern string.
TargetChoices ==
    { [dest |-> IndexHtml,   src |-> [kind |-> "array",  str |-> "", arr |-> <<"app/*">>]],
      [dest |-> DemoHtml,    src |-> [kind |-> "string", str |-> "p*", arr |-> <<>>]],
      [dest |-> MissingHtml, src |-> [kind |-> "array",  str |-> "", arr |-> <<"app/*">>]],
      [dest |-> LinkHtml,    src |-> [kind |-> "array",  str |-> "", arr |-> <<"none/*">>]] }

\* The lists of targets of a run.
TargetLists == UNION {[1..n -> TargetChoices] : n \in 1..MaxTargets}

\* The values this.options() may return: base undefined, a string or an
\* array of strings; filters undefined or an object keyed by extension whose
\* values name the configured functions.
OptionChoices ==
    { [base    |-> [kind |-> "undefined", str |-> <<>>, arr |-> <<>>],
       filters |-> [kind |-> "undefined", val |-> <<>>]],
      [base    |-> [kind |-> "array", str |-> <<>>, arr |-> << <<"a", "p", "p", "/">>, <<"a">> >>],
       filters |-> [kind |-> "object", val |-> (<<".", "h", "t", "m", "l">> :> "banner")]],
      [base    |-> [kind |-> "string", str |-> <<"x", "|", "t">>, arr |-> <<>>],
       filters |-> [kind |-> "object", val |-> (<<".", "j", "s">> :> "throws")]] }

\* Does the configured function raise on this content?
FilterThrows(name, content) == name = "throws"

\* The value the configured function returns for this content.
FilterResult(name, content) ==
    IF name = "banner" THEN <<"!">> \o content ELSE content

\* ------------------------------------------------------------------------
\* The state.
\* ------------------------------------------------------------------------

VARIABLES
    fs,           \* the file system: resolved path -> [kind, content]
    force,        \* is grunt run with --force?
    options,      \* this.options(), normalised by the task body
    targets,      \* this.files: the targets of the run, in order
    pc,           \* the position of the task
    t,            \* the index of the target of the forEach callback
    status,       \* "running", "done", "aborted" (grunt exited) or "thrown"
    error,        \* what ended the run
    destination,  \* bundlecache: the resolved destination
    baseRe,       \* bundlecache: the regular expressions of options.base
    files,        \* bundlecache: files, the patterns and then the paths
    all,          \* bundlecache: the accumulator of files.reduce
    i,            \* the index of the running reduce, filter or map
    kept,         \* bundlecache: the result of files.filter(fs.existsSync)
    tags,         \* bundlecache: the tag blocks built so far
    html,         \* bundlecache: the destination text read
    log,          \* history: the file operations of the task, in order
    ret,          \* history: the value each finished invocation returned
    inserted,     \* history: tags.join('\n') of each finished invocation
    ids,          \* history: relPath of each tag block of this invocation
    raws,         \* history: the content read for each tag block
    contents,     \* history: the content embedded in each tag block
    before,       \* history: the file system when this invocation began
    fs0,          \* history: the file system when the run began
    vanished,     \* history: the matched paths deleted under this invocation
    envLog,       \* history: the deletions of the environment, with targets
    destValid,    \* history: did the destination pass the check?
    filterFailed, \* history: has a filter function raised?
    failedAt      \* history: the target whose invocation failed, 0 if none

vars == <<fs, force, options, targets, pc, t, status, error, destination,
          baseRe, files, all, i, kept, tags, html, log, ret, inserted, ids,
          raws, contents, before, fs0, vanished, envLog, destValid,
          filterFailed, failedAt>>

\* The configuration, which no step after the task body's start changes.
config == <<force, targets, fs0>>

\* The locals of bundlecache.
locals == <<destination, baseRe, files, all, i, kept, tags, html>>

\* The history of the running invocation's tag blocks.
blockHistory == <<ids, raws, contents>>

\* The outcome of the run.
outcome == <<status, error, failedAt>>

\* fs.existsSync(p): does the path name anything?
ExistsSync(p) == fs[Resolve(p)].kind # "none"

\* fs.lstatSync(p).isFile(): a regular file, and not a link to one.
LstatIsFile(p) == fs[Resolve(p)].kind = "file"

\* Can grunt.file.read(p) read the path? A file, or a link to one.
Readable(p) == fs[Resolve(p)].kind \in {"file", "link"}

\* grunt.file.expand(pattern): the paths the pattern matches that exist.
Expand(pattern) == SelectSeq(Candidates(pattern), ExistsSync)

Init ==
    /\ \E text \in DestTexts : fs = InitialFs(text)
    /\ force \in BOOLEAN
    /\ options \in OptionChoices
    /\ targets \in TargetLists
    /\ pc = "task"
    /\ t = 1
    /\ status = "running"
    /\ error = "none"
    /\ destination = <<>>
    /\ baseRe = <<>>
    /\ files = <<>>
    /\ all = <<>>
    /\ i = 1
    /\ kept = <<>>
    /\ tags = <<>>
    /\ html = <<>>
    /\ log = <<>>
    /\ ret = <<>>
    /\ inserted = <<>>
    /\ ids = <<>>
    /\ raws = <<>>
    /\ contents = <<>>
    /\ before = fs
    /\ fs0 = fs
    /\ vanished = {}
    /\ envLog = <<>>
    /\ destValid = TRUE
    /\ filterFailed = FALSE
    /\ failedAt = 0

\* ------------------------------------------------------------------------
\* The task body and bundlecache, one action per step.
\* ------------------------------------------------------------------------

\* One entry of the history of file operations.
Op(op, path) == [op |-> op, path |-> path, t |-> t]

\* A slip: the forEach callback catching the failure and going on to the
\* next target.
FailAndContinue(st, err) ==
    /\ status' = status
    /\ error' = err
    /\ failedAt' = t
    /\ pc' = "forEach"
    /\ t' = t + 1

\* A failure inside the forEach callback: grunt.fail.warn exiting the
\* process, or an exception leaving bundlecache and the forEach, which has
\* no handler. Either way no later target is visited.
Fail(st, err) ==
    /\ status' = st
    /\ error' = err
    /\ failedAt' = t
    /\ pc' = "exit"
    /\ t' = t

\* The task body up to the forEach: the defaults of options.base and
\* options.filters.
TaskStart ==
    /\ pc = "task"
    /\ options' =
         [base |->
            IF options.base.kind = "undefined"
               \/ (options.base.kind = "string" /\ options.base.str = <<>>)
              THEN [kind |-> "array", str |-> <<>>, arr |-> <<>>]
            ELSE IF options.base.kind = "string"
              THEN [kind |-> "array", str |-> <<>>, arr |-> <<options.base.str>>]
            ELSE options.base,
          filters |->
            IF options.filters.kind = "undefined"
              THEN [kind |-> "object", val |-> <<>>]
            ELSE options.filters]
    /\ pc' = "forEach"
    /\ UNCHANGED <<fs, config, t, outcome, locals, log, ret, inserted,
                   blockHistory, before, vanished, envLog, destValid,
                   filterFailed>>

\* this.files.forEach: the callback is entered for the next target and
\* calls bundlecache, which builds baseRe; after the last target the task
\* returns.
ForEach ==
    /\ pc = "forEach"
    /\ \/ /\ t <= Len(targets)
          /\ baseRe' = BaseRe(options.base.arr)
          /\ pc' = "check"
          /\ before' = fs
          /\ vanished' = {}
          /\ destValid' = TRUE
          /\ destination' = <<>>
          /\ files' = <<>>
          /\ all' = <<>>
          /\ i' = 1
          /\ kept' = <<>>
          /\ tags' = <<>>
          /\ html' = <<>>
          /\ ids' = <<>>
          /\ raws' = <<>>
          /\ contents' = <<>>
          /\ UNCHANGED <<status, error, failedAt>>
       \/ /\ t > Len(targets)
          /\ pc' = "exit"
          /\ status' = "done"
          /\ UNCHANGED <<error, failedAt, locals, blockHistory, before,
                         vanished, destValid>>
    /\ UNCHANGED <<fs, config, options, t, log, ret, inserted, envLog,
                   filterFailed>>

\* The check of the destination path: grunt.fail.warn exits the process
\* unless grunt runs with --force, and then returns; the code goes on to
\* the sources in that case. A single pattern string becomes a list.
CheckDest ==
    /\ pc = "check"
    /\ LET d     == Resolve(targets[t].dest)
           valid == ExistsSync(d) /\ LstatIsFile(d)
           src   == targets[t].src
       IN  /\ destination' = d
           /\ destValid' = valid
           /\ IF ~valid /\ ~force
                THEN /\ Fail("aborted", "InvalidDestination")
                     /\ log' = Append(log, Op("warn", d))
                     /\ UNCHANGED <<files, all, i>>
                ELSE /\ log' = IF valid THEN log ELSE Append(log, Op("warn", d))
                     /\ files' = IF src.kind = "string" THEN <<src.str>> ELSE src.arr
                     /\ all' = <<>>
                     /\ i' = 1
                     /\ pc' = "expand"
                     /\ UNCHANGED <<t, outcome>>
    /\ UNCHANGED <<fs, config, options, baseRe, kept, tags, html, ret,
                   inserted, blockHistory, before, vanished, envLog,
                   filterFailed>>

\* files.reduce: one pattern is expanded and its matches appended; after
\* the last pattern files becomes the complete list.
ExpandTemplate ==
    /\ pc = "expand"
    /\ \/ /\ i <= Len(files)
          /\ all' = all \o Expand(files[i])
          /\ i' = i + 1
          /\ log' = Append(log, Op("expand", <<>>))
          /\ UNCHANGED <<files, kept, pc>>
       \/ /\ i > Len(files)
          /\ files' = all
          /\ kept' = <<>>
          /\ i' = 1
          /\ pc' = "filter"
          /\ UNCHANGED <<all, log>>
    /\ UNCHANGED <<fs, config, options, t, outcome, destination, baseRe,
                   tags, html, ret, inserted, blockHistory, before, vanished,
                   envLog, destValid, filterFailed>>

\* files.filter(fs.existsSync): one path is tested; the filter ends before
\* the map begins.
FilterExisting ==
    /\ pc = "filter"
    /\ \/ /\ i <= Len(files)
          /\ kept' = IF ExistsSync(files[i]) THEN Append(kept, files[i]) ELSE kept
          /\ i' = i + 1
          /\ UNCHANGED <<pc, tags>>
       \/ /\ i > Len(files)
          /\ tags' = <<>>
          /\ i' = 1
          /\ pc' = "map"
          /\ UNCHANGED kept
    /\ UNCHANGED <<fs, config, options, t, outcome, destination, baseRe,
                   files, all, html, log, ret, inserted, blockHistory, before,
                   vanished, envLog, destValid, filterFailed>>

\* The tag block of one file.
Tag(relPath, content) == TagOpen \o relPath \o TagMid \o content \o TagClose

\* A slip: the extension taken from the stripped path.
FilterOfRelPath(filters, filePath, relPath) ==
    LET ext == ExtName(relPath)
    IN  IF ext \in DOMAIN filters THEN filters[ext] ELSE "undefined"

\* options.filters[path.extname(filePath)], in the callback where filePath
\* and relPath are both in scope.
FilterOf(filters, filePath, relPath) ==
    LET ext == ExtName(filePath)
    IN  IF ext \in DOMAIN filters THEN filters[ext] ELSE "undefined"

\* A slip: the filter call wrapped in a handler that keeps the raw content.
FilterRaisesCaught(relPath, raw) ==
    /\ tags' = Append(tags, Tag(relPath, raw))
    /\ ids' = Append(ids, relPath)
    /\ raws' = Append(raws, raw)
    /\ contents' = Append(contents, raw)
    /\ i' = i + 1
    /\ UNCHANGED <<pc, t, outcome>>

\* filter(content) raising: the exception leaves the map callback and
\* bundlecache.
FilterRaises(relPath, raw) ==
    /\ Fail("thrown", "FilterError")
    /\ UNCHANGED <<tags, i, blockHistory>>

\* The map callback for one path that passed the filter: the identifier,
\* the content read, the filter of the extension, the tag block. After the
\* last path the destination is read next.
MapFile ==
    /\ pc = "map"
    /\ \/ /\ i <= Len(kept)
          /\ LET filePath == kept[i]
                 relPath  == StripBase(baseRe, filePath)
                 raw      == fs[Resolve(filePath)].content
                 filter   == FilterOf(options.filters.val, filePath, relPath)
             IN  IF ~Readable(filePath)
                   THEN /\ Fail("thrown", "UnableToReadSource")
                        /\ UNCHANGED <<tags, i, blockHistory, log, filterFailed>>
                 ELSE /\ log' = Append(log, Op("read", Resolve(filePath)))
                      /\ IF filter # "undefined" /\ FilterThrows(filter, raw)
                           THEN /\ filterFailed' = TRUE
                                /\ FilterRaises(relPath, raw)
                         ELSE LET content == IF filter # "undefined"
                                               THEN FilterResult(filter, raw)
                                             ELSE raw
                              IN  /\ tags' = Append(tags, Tag(relPath, content))
                                  /\ ids' = Append(ids, relPath)
                                  /\ raws' = Append(raws, raw)
                                  /\ contents' = Append(contents, content)
                                  /\ i' = i + 1
                                  /\ UNCHANGED <<pc, t, outcome, filterFailed>>
       \/ /\ i > Len(kept)
          /\ pc' = "readDest"
          /\ UNCHANGED <<t, outcome, tags, i, blockHistory, log, filterFailed>>
    /\ UNCHANGED <<fs, config, options, destination, baseRe, files, all,
                   kept, html, ret, inserted, before, vanished, envLog,
                   destValid>>

\* grunt.file.read(destination), which raises when the path cannot be read.
ReadDest ==
    /\ pc = "readDest"
    /\ IF Readable(destination)
         THEN /\ html' = fs[destination].content
              /\ log' = Append(log, Op("read", destination))
              /\ pc' = "write"
              /\ UNCHANGED <<t, outcome>>
         ELSE /\ Fail("thrown", "UnableToReadDestination")
              /\ UNCHANGED <<html, log>>
    /\ UNCHANGED <<fs, config, options, destination, baseRe, files, all, i,
                   kept, tags, ret, inserted, blockHistory, before, vanished,
                   envLog, destValid, filterFailed>>

\* A slip: the blocks put after the marker, not before it.
SplicedAfterMarker(text, blocks) ==
    LET idx == IndexOf(text, Marker) + Len(Marker)
    IN  Slice(text, 0, idx) \o Join(blocks, Newline) \o SliceFrom(text, idx)

\* The text bundlecache writes: the tag blocks joined and put at the index
\* of the marker.
Spliced(text, blocks) ==
    LET idx == IndexOf(text, Marker)
    IN  Slice(text, 0, idx) \o Join(blocks, Newline) \o SliceFrom(text, idx)

\* A slip: the destination read again just before it is written.
WriteDestReread ==
    /\ pc = "write"
    /\ html' = Spliced(fs[destination].content, tags)
    /\ fs' = [fs EXCEPT ![destination].content = html']
    /\ log' = log \o <<Op("read", destination), Op("write", destination)>>
    /\ ret' = Append(ret, html')
    /\ inserted' = Append(inserted, Join(tags, Newline))
    /\ pc' = "log"
    /\ UNCHANGED <<config, options, t, outcome, destination, baseRe, files,
                   all, i, kept, tags, blockHistory, before, vanished, envLog,
                   destValid, filterFailed>>

\* The splice, grunt.file.write(destination, html) and the return.
WriteDest ==
    /\ pc = "write"
    /\ html' = Spliced(html, tags)
    /\ fs' = [fs EXCEPT ![destination].content = html']
    /\ log' = Append(log, Op("write", destination))
    /\ ret' = Append(ret, html')
    /\ inserted' = Append(inserted, Join(tags, Newline))
    /\ pc' = "log"
    /\ UNCHANGED <<config, options, t, outcome, destination, baseRe, files,
                   all, i, kept, tags, blockHistory, before, vanished, envLog,
                   destValid, filterFailed>>

\* grunt.log.writeln after bundlecache returned; the forEach goes on.
LogUpdated ==
    /\ pc = "log"
    /\ t' = t + 1
    /\ pc' = "forEach"
    /\ UNCHANGED <<fs, config, options, outcome, locals, log, ret, inserted,
                   blockHistory, before, vanished, envLog, destValid,
                   filterFailed>>

\* The environment deletes a source file that expansion has matched and
\* that bundlecache has yet to read.
EnvDelete ==
    /\ pc \in {"expand", "filter", "map"}
    /\ Len(envLog) < MaxEnvDeletes
    /\ \E p \in SourcePaths :
          /\ ExistsSync(p)
          /\ \/ pc = "expand" /\ p \in Range(all)
             \/ pc = "filter" /\ p \in Range(files)
             \/ pc = "map" /\ \E j \in i..Len(kept) : kept[j] = p
          /\ fs' = [fs EXCEPT ![Resolve(p)] = NoFile]
          /\ vanished' = vanished \cup {p}
          /\ envLog' = Append(envLog, [path |-> p, t |-> t, pc |-> pc])
    /\ UNCHANGED <<config, options, pc, t, outcome, locals, log, ret,
                   inserted, blockHistory, before, destValid, filterFailed>>

Next ==
    \/ TaskStart
    \/ ForEach
    \/ CheckDest
    \/ ExpandTemplate
    \/ FilterExisting
    \/ MapFile
    \/ ReadDest
    \/ WriteDest
    \/ LogUpdated
    \/ EnvDelete

Spec == Init /\ [][Next]_vars

\* ------------------------------------------------------------------------
\* The properties.
\* ------------------------------------------------------------------------

\* Does the text contain the marker?
HasMarker(s) == \E k \in 0..Len(s) : OccursAt(s, Marker, k)

\* The 0-based index of the first marker of a text that has one.
FirstMarker(s) ==
    CHOOSE k \in 0..Len(s) :
        OccursAt(s, Marker, k) /\ \A j \in 0..(k - 1) : ~OccursAt(s, Marker, j)

\* The destination text as the running invocation found it.
DestBefore == before[destination].content

\* The blocks of the first n files of the running invocation, each built
\* from its recorded identifier and content, a newline between neighbours.
RECURSIVE BlocksText(_)
BlocksText(n) ==
    IF n = 0 THEN <<>>
    ELSE IF n = 1 THEN TagOpen \o ids[1] \o TagMid \o contents[1] \o TagClose
    ELSE BlocksText(n - 1) \o Newline
         \o TagOpen \o ids[n] \o TagMid \o contents[n] \o TagClose

\* The entries of the history that belong to target k.
OpsOf(k) == {j \in 1..Len(log) : log[j].t = k}

\* C1: when the destination text has a marker, the text written and
\* returned is the text before the first marker, then the blocks of the
\* files that passed the existence filter, in their order and joined by
\* newlines, then the text from that marker on; with no such file the text
\* is unchanged.
C1_SpliceBeforeFirstMarker ==
    (pc = "log" /\ HasMarker(DestBefore)) =>
        LET k   == FirstMarker(DestBefore)
            out == SubSeq(DestBefore, 1, k) \o BlocksText(Len(kept))
                   \o SubSeq(DestBefore, k + 1, Len(DestBefore))
        IN  /\ Len(ids) = Len(kept)
            /\ Len(contents) = Len(kept)
            /\ Range(files) \ vanished \subseteq Range(kept)
            /\ ret[t] = out
            /\ fs[destination].content = out
            /\ Len(kept) = 0 => out = DestBefore

\* C1's case: two blocks spliced into a text with two markers.
C1_Witness ==
    /\ pc = "log"
    /\ HasMarker(DestBefore)
    /\ \E k \in (FirstMarker(DestBefore) + 1)..Len(DestBefore) : OccursAt(DestBefore, Marker, k)
    /\ Len(kept) = 2

\* C2: when the destination text has no marker the invocation reports
\* MissingInsertionPoint and leaves the destination as it was.
C2_MissingMarkerReported ==
    (pc = "log" /\ ~HasMarker(DestBefore)) =>
        /\ error = "MissingInsertionPoint"
        /\ fs[destination] = before[destination]

\* C3: when the destination is missing or not a regular file the target
\* fails at the check: no pattern of the target is expanded after it, no
\* file is read, no tag block is built, nothing is written and the
\* invocation does not return.
C3_InvalidDestinationStopsTarget ==
    (pc \notin {"task", "forEach", "check"} /\ ~destValid) =>
        /\ pc # "log"
        /\ tags = <<>>
        /\ \A j \in OpsOf(t) : log[j].op \notin {"expand", "read", "write"}

\* C4: a matched source file that the environment deletes before it is
\* read is dropped: the invocation does not fail on it, and once the
\* destination is written no block comes from it.
C4_VanishedSourceDropped ==
    \A p \in vanished :
        /\ error # "UnableToReadSource"
        /\ pc = "log" => p \notin Range(kept)

\* Does the base, read as a pattern for the start of a path, match there?
\* Every alternative of the pattern is tried at the start.
PrefixMatches(base, s) ==
    \E a \in 1..Len(Alternatives(base)) : AltMatchesAt(Alternatives(base)[a], s, 0)

\* The path with what the base matched at its start removed, the path
\* itself when the base does not match there.
WithoutPrefix(base, s) ==
    IF PrefixMatches(base, s)
      THEN LET alts == Alternatives(base)
               a    == CHOOSE b \in 1..Len(alts) :
                          /\ AltMatchesAt(alts[b], s, 0)
                          /\ \A c \in 1..(b - 1) : ~AltMatchesAt(alts[c], s, 0)
           IN  SubSeq(s, Len(Atoms(alts[a])) + 1, Len(s))
    ELSE s

\* The prefixes of the list removed one after the other, each from the
\* start of what the earlier ones left.
RECURSIVE WithoutPrefixes(_, _, _)
WithoutPrefixes(bases, n, s) ==
    IF n = 0 THEN s
    ELSE WithoutPrefix(bases[n], WithoutPrefixes(bases, n - 1, s))

\* C5: the identifier of every tag block is the file's path with each base
\* prefix, in list order, removed from the start of the path when it
\* matches there; the path itself when none matches.
C5_IdIsPathWithoutPrefixes ==
    \A j \in 1..Len(ids) :
        ids[j] = WithoutPrefixes(options.base.arr, Len(options.base.arr), kept[j])

\* The extension of a path: its ending that starts at a '.', holds no
\* other '.' and no '/', and does not start the last component.
ExtensionOf(p) ==
    LET dots == {k \in 2..Len(p) :
                    /\ p[k] = "."
                    /\ p[k - 1] # "/"
                    /\ \A m \in (k + 1)..Len(p) : p[m] \notin {".", "/"}}
    IN  IF dots = {} THEN <<>> ELSE SubSeq(p, CHOOSE k \in dots : TRUE, Len(p))

\* C6: the content embedded for a file is the result of the filter
\* configured for the extension of the file's path, dot included, applied
\* to the content the file had, and that content itself when no filter is
\* configured for the extension; the identifier plays no part.
C6_FilterByExtensionOfPath ==
    \A j \in 1..Len(contents) :
        LET ext == ExtensionOf(kept[j])
        IN  /\ raws[j] = before[Resolve(kept[j])].content
            /\ contents[j] =
                 IF ext \in DOMAIN options.filters.val
                   THEN FilterResult(options.filters.val[ext], raws[j])
                 ELSE raws[j]
            /\ tags[j] = TagOpen \o ids[j] \o TagMid \o contents[j] \o TagClose

\* C6's case: a filtered file whose identifier has lost the extension, and
\* an unfiltered file beside it.
C6_Witness ==
    /\ Len(contents) = 2
    /\ contents[1] # raws[1]
    /\ ExtensionOf(ids[1]) # ExtensionOf(kept[1])
    /\ contents[2] = raws[2]

\* The reads of the destination among the operations of target k.
DestReads(k) ==
    {j \in OpsOf(k) : log[j].op = "read" /\ log[j].path = destination}

\* The writes among the operations of target k.
Writes(k) == {j \in OpsOf(k) : log[j].op = "write"}

\* C7, as stated: a successful invocation reads the destination exactly
\* once and writes it exactly once, the read before the write and after
\* every read of a source, and writes or deletes no other file.
C7_DestinationReadOnce ==
    pc = "log" =>
        /\ Cardinality(DestReads(t)) = 1
        /\ Cardinality(Writes(t)) = 1
        /\ \A w \in Writes(t) : log[w].path = destination /\ w = Len(log)
        /\ \A r \in DestReads(t) : r = Len(log) - 1

\* C7, amended: a successful invocation reads the destination once for the
\* splice, and once more for each time its path is among the files that
\* passed the filter; it writes it exactly once, as its last operation,
\* the read for the splice just before and every source read earlier; every
\* other file is as the invocation found it or was deleted by the
\* environment.
C7_FrameOfInvocation ==
    pc = "log" =>
        /\ Cardinality(DestReads(t))
             = 1 + Cardinality({j \in 1..Len(kept) : Resolve(kept[j]) = destination})
        /\ Cardinality(Writes(t)) = 1
        /\ \A w \in Writes(t) : log[w].path = destination /\ w = Len(log)
        /\ Len(log) - 1 \in DestReads(t)
        /\ Cardinality({j \in OpsOf(t) : log[j].op = "read"}) = Len(kept) + 1
        /\ \A p \in DOMAIN fs :
              p # destination =>
                 \/ fs[p] = before[p]
                 \/ fs[p] = NoFile /\ \E q \in vanished : p = Resolve(q)

\* C7's case: an invocation whose destination is one of its source files.
C7_Witness ==
    /\ pc = "log"
    /\ \E j \in 1..Len(kept) : Resolve(kept[j]) = destination

\* The resolved destination of target k.
DestOf(k) == Resolve(targets[k].dest)

\* C8, as stated: the targets are visited in order, and when target k
\* fails every destination of an earlier target holds what that target's
\* invocation wrote, and the destinations of later targets that no earlier
\* target has are as the run found them.
C8_EarlierDestinationsKeepOwnContent ==
    failedAt # 0 =>
        /\ \A k \in 1..(failedAt - 1) : fs[DestOf(k)].content = ret[k]
        /\ \A j \in (failedAt + 1)..Len(targets) :
              (\A k \in 1..(failedAt - 1) : DestOf(k) # DestOf(j))
                 => fs[DestOf(j)] = fs0[DestOf(j)]

\* C8, amended: the targets are visited one at a time in list order; when
\* target k fails the run stops, every destination of an earlier target
\* holds what the last earlier invocation on that destination wrote, and
\* the destinations of target k and of later targets that no earlier target
\* has are as the run found them.
C8_NoRollbackLastWriterWins ==
    /\ \A a \in 1..(Len(log) - 1) : log[a].t <= log[a + 1].t
    /\ \A a \in 1..Len(log) : log[a].t <= t
    /\ failedAt # 0 =>
          /\ status \in {"aborted", "thrown"}
          /\ t = failedAt
          /\ Len(ret) = failedAt - 1
          /\ \A k \in 1..(failedAt - 1) :
                (\A m \in (k + 1)..(failedAt - 1) : DestOf(m) # DestOf(k))
                   => fs[DestOf(k)].content = ret[k]
          /\ \A j \in failedAt..Len(targets) :
                (\A k \in 1..(failedAt - 1) : DestOf(k) # DestOf(j))
                   => fs[DestOf(j)] = fs0[DestOf(j)]

\* C8's case: the third target fails after two invocations wrote the same
\* destination, the second over the first.
C8_Witness ==
    /\ failedAt = 3
    /\ DestOf(1) = DestOf(2)
    /\ ret[1] # ret[2]
    /\ fs[DestOf(2)].content = ret[2]

\* C9: when a filter function raises, the exception ends the invocation,
\* and the destination is as the invocation found it: nothing was written.
C9_FilterErrorLeavesDestination ==
    filterFailed =>
        /\ status = "thrown"
        /\ error = "FilterError"
        /\ fs[destination] = before[destination]
        /\ Writes(failedAt) = {}

\* C9's case: a filter raised on the second file, after a tag block was
\* built from the first.
C9_Witness ==
    /\ filterFailed
    /\ Len(tags) = 1
    /\ HasMarker(before[destination].content)

\* n copies of a text, one after the other.
RECURSIVE Copies(_, _)
Copies(s, n) == IF n = 0 THEN <<>> ELSE s \o Copies(s, n - 1)

\* Were the first n invocations made on one target, with its source files
\* untouched by the environment and its destination not among them?
SameTargetRepeated(n) ==
    /\ n >= 1
    /\ \A k \in 1..n : targets[k] = targets[1]
    /\ \A e \in 1..Len(envLog) : envLog[e].t > n
    /\ \A k \in 1..n : \A j \in OpsOf(k) :
          log[j].op = "read" /\ log[j].path = DestOf(1) => log[j + 1].op = "write"

\* C10: after n successful invocations on the same destination with the
\* same unchanged source files, the destination's first text having a
\* marker and the blocks none, the destination is that text with n copies
\* of the joined blocks before its first marker; so a second invocation
\* with files to embed changes the destination again.
C10_RepeatedInvocationsAccumulate ==
    LET n    == Len(ret)
        text == fs0[DestOf(1)].content
    IN  (/\ SameTargetRepeated(n)
         /\ HasMarker(text)
         /\ ~HasMarker(inserted[1])) =>
            /\ fs[DestOf(1)].content
                 = SubSeq(text, 1, FirstMarker(text)) \o Copies(inserted[1], n)
                   \o SubSeq(text, FirstMarker(text) + 1, Len(text))
            /\ (n >= 2 /\ inserted[1] # <<>>) => ret[2] # ret[1]

\* C10's case: three invocations on the same target, each embedding two
\* files.
C10_Witness ==
    /\ Len(ret) = 3
    /\ SameTargetRepeated(3)
    /\ HasMarker(fs0[DestOf(1)].content)
    /\ inserted[1] # <<>>
    /\ ~HasMarker(inserted[1])

====
